---- MODULE Spec2Model ----
(***************************************************************************)
(* Model of the simulation engine of simple_platformer (src/main.rs):      *)
(* the World (player, obstacle queue, pending action, timer), its tick,    *)
(* and the part of the session loop that feeds it (key events, restart).   *)
(*                                                                         *)
(* The board and the random ranges are scaled down so that the state       *)
(* space is finite and small: WIDTH, HEIGHT, SPAWN_DELAY and the ranges    *)
(* of gen_range keep their roles and their names, with smaller values      *)
(* (480, 480, 150, [2,10) and [5,32) in the source).                       *)
(***************************************************************************)
EXTENDS Integers, Sequences, FiniteSets

\* ---- scaled program constants and model bounds -------------------------
WIDTH == 4
HEIGHT == 2
SPAWN_DELAY == 5
\* gen_range(MIN_SPAWN, MAX_SPAWN): obstacles per batch, upper end exclusive
MIN_SPAWN == 1
MAX_SPAWN == 3
\* gen_range(MIN_SIZE, MAX_SIZE): obstacle width and height, upper end exclusive
MIN_SIZE == 1
MAX_SIZE == 3
\* ticks explored per World
MaxTicks == 10
\* ticks explored per World when obstacles are followed to the end of their life
LifeTicks == 11
\* ticks explored per World by the session loop
RunTicks == 5
\* events one poll of the event pump delivers, at most
MaxEvents == 2
\* Coverage::new(5, 5) of the player
PLAYER_WIDTH == 5
PLAYER_HEIGHT == 5

\* the capacity the queue is created with
MAX_OBST == 512

VARIABLES
    obstacles,    \* World.obstacles: queue of (Position, Coverage), front first
    player,       \* World.player: (Position, Coverage)
    last_action,  \* World.last_action: "None" or an Action
    timer,        \* World.timer
    alive,        \* what the last tick returned (TRUE before the first tick)
    exit,         \* where the last tick returned: "none", "A", "B" or "ok"
    before,       \* the queue as the last tick found it
    cleaned,      \* the queue as the last tick's cleanup left it (<<>> if not reached)
    spawned,      \* the batch the last tick appended (<<>> if none)
    calls,        \* number of tick calls on this World
    blocked,      \* the last tick consumed an action that a wall turned into a no-op
    pc,           \* run: "poll", "tick", "dialog", "draw" or "returned"
    finished,     \* what run returned: "none" while it runs, else a Finished
    polled,       \* the events the last poll of the event pump delivered
    drawn,        \* the rectangles handed to the drawer in the last frame
    clicked,      \* what the game-over dialog answered ("none" before it is shown)
    draw_failure, \* which drawer call of the last frame failed (0: none)
    ticks_in_iteration  \* tick calls since the loop body was entered

worldvars == <<obstacles, player, last_action, timer, alive, exit, before, cleaned,
               spawned, calls, blocked>>

runvars == <<pc, finished, polled, drawn, clicked, draw_failure, ticks_in_iteration>>

vars == <<obstacles, player, last_action, timer, alive, exit, before, cleaned,
          spawned, calls, blocked, pc, finished, polled, drawn, clicked, draw_failure,
          ticks_in_iteration>>

Actions == {"Left", "Right", "Up", "Down"}

\* ---- Position ----------------------------------------------------------
Position(x, y) == [x |-> x, y |-> y]

Coverage(width, height) == [width |-> width, height |-> height]

Entity(p, c) == [pos |-> p, cov |-> c]

\* the obstacles' move with the wall test of left
unsafe_left_clamped(p) == IF p.x # 0 THEN [p EXCEPT !.x = p.x - 1] ELSE p

unsafe_left(p) == [p EXCEPT !.x = p.x - 1]

left(p) == IF p.x # 0 THEN [p EXCEPT !.x = p.x - 1] ELSE p

\* right without its wall test
right_unclamped(p) == [p EXCEPT !.x = p.x + 1]

right(p) == IF p.x # WIDTH THEN [p EXCEPT !.x = p.x + 1] ELSE p

down(p) == IF p.y # HEIGHT THEN [p EXCEPT !.y = p.y + 1] ELSE p

up(p) == IF p.y # 0 THEN [p EXCEPT !.y = p.y - 1] ELSE p

\* ---- collision ---------------------------------------------------------
in_range(min, delta, x) == min <= x /\ x <= min + delta

\* is_collided with the far edges excluded (x < min + delta)
is_collided_open(f, s) ==
    /\ f.pos.x <= s.pos.x /\ s.pos.x < f.pos.x + f.cov.width
    /\ f.pos.y <= s.pos.y /\ s.pos.y < f.pos.y + f.cov.height

\* is_collided((f_pos, f_cov), (s_pos, _)): the second entity's coverage is ignored
is_collided(f, s) ==
    /\ in_range(f.pos.x, f.cov.width, s.pos.x)
    /\ in_range(f.pos.y, f.cov.height, s.pos.y)

\* check_collisions with the arguments of is_collided exchanged
check_collisions_swapped(q, pl) ==
    \E i \in 1..Len(q) : is_collided(pl, q[i])

\* check_collisions looking at the front obstacle only
check_collisions_front(q, pl) ==
    q # <<>> /\ is_collided(q[1], pl)

\* any obstacle o with is_collided(o, player): the obstacle is the first argument
check_collisions(q, pl) ==
    \E i \in 1..Len(q) : is_collided(q[i], pl)

\* ---- World::new --------------------------------------------------------
\* gen_range(0, WIDTH / 2) x gen_range(0, HEIGHT / 2)
StartPositions ==
    {Position(x, y) : x \in 0..((WIDTH \div 2) - 1), y \in 0..((HEIGHT \div 2) - 1)}

NewPlayer(p) == Entity(p, Coverage(PLAYER_WIDTH, PLAYER_HEIGHT))

\* ---- World::cleanup ----------------------------------------------------
\* cleanup testing the left edge x instead of the right edge x + width
RECURSIVE cleanup_left_edge(_)
cleanup_left_edge(q) ==
    IF q = <<>> THEN <<>>
    ELSE IF Head(q).pos.x > 0 THEN q
    ELSE cleanup_left_edge(Tail(q))

\* a cleanup that looks at the front obstacle only once
cleanup_one(q) ==
    IF q = <<>> THEN <<>>
    ELSE IF Head(q).pos.x + Head(q).cov.width > 0 THEN q
    ELSE Tail(q)

\* a cleanup that removes nothing
cleanup_none(q) == q

RECURSIVE cleanup(_)
cleanup(q) ==
    IF q = <<>> THEN <<>>
    ELSE IF Head(q).pos.x + Head(q).cov.width > 0 THEN q
    ELSE cleanup(Tail(q))

\* ---- World::tick -------------------------------------------------------
\* a timer that restarts at every spawn
timer_inc_wrap(t) == (t + 1) % SPAWN_DELAY

timer_inc(t) == t + 1

apply_action(p, a) ==
    CASE a = "Left" -> left(p)
      [] a = "Right" -> right(p)
      [] a = "Up" -> up(p)
      [] a = "Down" -> down(p)
      [] OTHER -> p

move_obstacles(q) ==
    [i \in 1..Len(q) |-> [q[i] EXCEPT !.pos = unsafe_left(q[i].pos)]]

\* the spawn test one tick early
SpawnDue_early(t) == (t + 1) % SPAWN_DELAY = 0

SpawnDue(t) == t % SPAWN_DELAY = 0

\* spawned obstacles with sizes drawn from a range closed at its upper end
NewObstacles_inclusive ==
    {Entity(Position(WIDTH, y), Coverage(w, h)) :
        y \in 0..(HEIGHT - 1), w \in MIN_SIZE..MAX_SIZE, h \in MIN_SIZE..MAX_SIZE}

\* one spawned obstacle: x = WIDTH, y in [0, HEIGHT), width and height in [MIN_SIZE, MAX_SIZE)
NewObstacles ==
    {Entity(Position(WIDTH, y), Coverage(w, h)) :
        y \in 0..(HEIGHT - 1), w \in MIN_SIZE..(MAX_SIZE - 1), h \in MIN_SIZE..(MAX_SIZE - 1)}

\* batches drawn with an inclusive upper end
Batches_inclusive ==
    UNION {[1..n -> NewObstacles] : n \in MIN_SPAWN..MAX_SPAWN}

\* the batches one spawn can draw: num in [MIN_SPAWN, MAX_SPAWN) obstacles
Batches ==
    UNION {[1..n -> NewObstacles] : n \in MIN_SPAWN..(MAX_SPAWN - 1)}

\* tick with the obstacle move, cleanup and spawn done before collision check A
tick_move_first(q, pl, a, t, batch) ==
    LET t1 == timer_inc(t)
        pl1 == [pl EXCEPT !.pos = apply_action(pl.pos, a)]
        m == move_obstacles(q)
        c == cleanup(m)
        s == IF SpawnDue(t1) THEN batch ELSE <<>>
        q1 == c \o s
    IN  IF check_collisions(q, pl1)
        THEN [obstacles |-> q1, player |-> pl1, timer |-> t1, alive |-> FALSE,
              exit |-> "A", cleaned |-> <<>>, spawned |-> <<>>]
        ELSE IF check_collisions(q1, pl1)
             THEN [obstacles |-> q1, player |-> pl1, timer |-> t1,
                   alive |-> FALSE, exit |-> "B", cleaned |-> c, spawned |-> s]
             ELSE [obstacles |-> q1, player |-> pl1, timer |-> t1,
                   alive |-> TRUE, exit |-> "ok", cleaned |-> c, spawned |-> s]

\* tick with the spawned obstacles pushed to the front of the queue
tick_push_front(q, pl, a, t, batch) ==
    LET t1 == timer_inc(t)
        pl1 == [pl EXCEPT !.pos = apply_action(pl.pos, a)]
    IN  IF check_collisions(q, pl1)
        THEN [obstacles |-> q, player |-> pl1, timer |-> t1, alive |-> FALSE,
              exit |-> "A", cleaned |-> <<>>, spawned |-> <<>>]
        ELSE LET m == move_obstacles(q)
                 c == cleanup(m)
                 s == IF SpawnDue(t1) THEN batch ELSE <<>>
                 q1 == s \o c
             IN  IF check_collisions(q1, pl1)
                 THEN [obstacles |-> q1, player |-> pl1, timer |-> t1,
                       alive |-> FALSE, exit |-> "B", cleaned |-> c, spawned |-> s]
                 ELSE [obstacles |-> q1, player |-> pl1, timer |-> t1,
                       alive |-> TRUE, exit |-> "ok", cleaned |-> c, spawned |-> s]

\* The whole of tick as a function of the World and of the random draws
\* (batch is used only when the spawn is due).
tick(q, pl, a, t, batch) ==
    LET t1 == timer_inc(t)
        pl1 == [pl EXCEPT !.pos = apply_action(pl.pos, a)]
    IN  IF check_collisions(q, pl1)
        THEN [obstacles |-> q, player |-> pl1, timer |-> t1, alive |-> FALSE,
              exit |-> "A", cleaned |-> <<>>, spawned |-> <<>>]
        ELSE LET m == move_obstacles(q)
                 c == cleanup(m)
                 s == IF SpawnDue(t1) THEN batch ELSE <<>>
                 q1 == c \o s
             IN  IF check_collisions(q1, pl1)
                 THEN [obstacles |-> q1, player |-> pl1, timer |-> t1,
                       alive |-> FALSE, exit |-> "B", cleaned |-> c, spawned |-> s]
                 ELSE [obstacles |-> q1, player |-> pl1, timer |-> t1,
                       alive |-> TRUE, exit |-> "ok", cleaned |-> c, spawned |-> s]

\* ---- World::draw_obstacles, World::draw_player ---------------------------
Max(a, b) == IF a >= b THEN a ELSE b

Rect(x, y, width, height) == [x |-> x, y |-> y, width |-> width, height |-> height]

\* obj_to_rect without the max(.., 0)
obj_to_rect_raw(p, c) == Rect(p.x, p.y, c.width, c.height)

obj_to_rect(p, c) == Rect(Max(p.x, 0), Max(p.y, 0), c.width, c.height)

\* the fold of draw_obstacles from rectangle i on; acc.calls are the rectangles
\* handed to the drawer so far, acc.ok is Ok(_) against Err; the drawer fails
\* at its call number failAt (0: never)
RECURSIVE draw_fold(_, _, _, _)
draw_fold(rects, i, failAt, acc) ==
    IF i > Len(rects) THEN acc
    ELSE IF acc.ok
         THEN draw_fold(rects, i + 1, failAt,
                        [calls |-> Append(acc.calls, rects[i]),
                         ok |-> (Len(acc.calls) + 1 # failAt)])
         ELSE draw_fold(rects, i + 1, failAt, acc)

\* a fold that keeps calling the drawer after an error and returns the first error
RECURSIVE draw_fold_all(_, _, _, _)
draw_fold_all(rects, i, failAt, acc) ==
    IF i > Len(rects) THEN acc
    ELSE draw_fold_all(rects, i + 1, failAt,
                       [calls |-> Append(acc.calls, rects[i]),
                        ok |-> acc.ok /\ (Len(acc.calls) + 1 # failAt)])

\* draw_obstacles that goes on after an error
draw_obstacles_all(q, failAt) ==
    draw_fold_all([i \in 1..Len(q) |-> obj_to_rect(q[i].pos, q[i].cov)], 1, failAt,
                  [calls |-> <<>>, ok |-> TRUE])

draw_obstacles(q, failAt) ==
    draw_fold([i \in 1..Len(q) |-> obj_to_rect(q[i].pos, q[i].cov)], 1, failAt,
              [calls |-> <<>>, ok |-> TRUE])

draw_player(pl) == obj_to_rect(pl.pos, pl.cov)

\* run, lines 302-313: the frame; the drawer fails at its call number failAt
\* of this frame (0: never), the player's rectangle being the last call
draw_frame(q, pl, failAt) ==
    LET o == draw_obstacles(q, failAt)
    IN  IF ~o.ok THEN [calls |-> o.calls, ok |-> FALSE]
        ELSE [calls |-> Append(o.calls, draw_player(pl)),
              ok |-> (Len(o.calls) + 1 # failAt)]

\* ---- run: events, dialog ------------------------------------------------
\* "Quit" is Event::Quit or KeyDown Escape, "Other" any event run ignores
Events == Actions \cup {"Quit", "Other"}

EventBursts == UNION {[1..n -> Events] : n \in 0..MaxEvents}

\* a poll loop that records a direction only when none is pending
RECURSIVE poll_keep_first(_, _)
poll_keep_first(la, evs) ==
    IF evs = <<>> THEN [last_action |-> la, quit |-> FALSE]
    ELSE IF Head(evs) = "Quit" THEN [last_action |-> la, quit |-> TRUE]
    ELSE IF Head(evs) \in Actions /\ la = "None" THEN poll_keep_first(Head(evs), Tail(evs))
    ELSE poll_keep_first(la, Tail(evs))

\* for event in event_pump.poll_iter(): quit returns at once, a direction
\* overwrites world.last_action, anything else is skipped
RECURSIVE poll(_, _)
poll(la, evs) ==
    IF evs = <<>> THEN [last_action |-> la, quit |-> FALSE]
    ELSE IF Head(evs) = "Quit" THEN [last_action |-> la, quit |-> TRUE]
    ELSE IF Head(evs) \in Actions THEN poll(Head(evs), Tail(evs))
    ELSE poll(la, Tail(evs))

\* the loop goes on to the next frame whatever tick returned
after_tick_ignoring(a) == "draw"

\* if !world.tick() { dialog, return } else draw
after_tick(a) == IF a THEN "draw" ELSE "dialog"

restart_id == 1
exit_id == 2

\* what show_message_box can answer: the close button, one of the two buttons,
\* a button with another id, or an error
Answers ==
    {[kind |-> "CloseButton", id |-> 0], [kind |-> "Err", id |-> 0]}
        \cup {[kind |-> "CustomButton", id |-> i] : i \in {restart_id, exit_id, exit_id + 1}}

\* the match on clicked with the unknown ids taken for Restart
dialog_result_lenient(c) ==
    CASE c.kind = "CloseButton" -> "Exit"
      [] c.kind = "CustomButton" -> IF c.id = exit_id THEN "Exit" ELSE "Restart"
      [] OTHER -> "Error"

\* return match clicked { .. }
dialog_result(c) ==
    CASE c.kind = "CloseButton" -> "Exit"
      [] c.kind = "CustomButton" ->
            IF c.id = exit_id THEN "Exit"
            ELSE IF c.id = restart_id THEN "Restart"
            ELSE "Error"
      [] OTHER -> "Error"

\* main restarting after every outcome but Exit
main_continues_unless_exit(f) == f # "Exit"

\* while let Finished::Restart = run(..) {}
main_continues(f) == f = "Restart"

\* ---- the state machine -------------------------------------------------
Init ==
    /\ obstacles = <<>>
    /\ player \in {NewPlayer(p) : p \in StartPositions}
    /\ last_action = "None"
    /\ timer = 0
    /\ alive = TRUE
    /\ exit = "none"
    /\ before = <<>>
    /\ cleaned = <<>>
    /\ spawned = <<>>
    /\ calls = 0
    /\ blocked = FALSE
    /\ pc = "poll"
    /\ finished = "none"
    /\ polled = <<>>
    /\ drawn = <<>>
    /\ clicked = "none"
    /\ draw_failure = 0
    /\ ticks_in_iteration = 0

\* run: a directional KeyDown event overwrites world.last_action
SetIntent(a) ==
    /\ alive
    /\ last_action' = a
    /\ UNCHANGED <<obstacles, player, timer, alive, exit, before, cleaned, spawned,
                   calls, blocked>>
    /\ UNCHANGED runvars

\* world.tick(), at most cap calls per World
TickCall(cap) ==
    /\ timer < cap
    /\ \E batch \in (IF SpawnDue(timer_inc(timer)) THEN Batches ELSE {<<>>}) :
          \E r \in {tick(obstacles, player, last_action, timer, batch)} :
              /\ obstacles' = r.obstacles
              /\ player' = r.player
              /\ last_action' = "None"
              /\ timer' = r.timer
              /\ alive' = r.alive
              /\ exit' = r.exit
              /\ before' = obstacles
              /\ cleaned' = r.cleaned
              /\ spawned' = r.spawned
              /\ calls' = calls + 1
              /\ blocked' = (last_action \in Actions /\ r.player = player)

\* run: world.tick(), called only while the World has not reported dead
Tick ==
    /\ alive
    /\ TickCall(MaxTicks)
    /\ UNCHANGED runvars

\* World::new() replacing the World of the previous run
NewWorld ==
    /\ obstacles' = <<>>
    /\ player' \in {NewPlayer(p) : p \in StartPositions}
    /\ last_action' = "None"
    /\ timer' = 0
    /\ alive' = TRUE
    /\ exit' = "none"
    /\ before' = <<>>
    /\ cleaned' = <<>>
    /\ spawned' = <<>>
    /\ calls' = 0
    /\ blocked' = FALSE

\* main: run returned Finished::Restart, the next run builds a new World
Restart ==
    /\ ~alive
    /\ NewWorld
    /\ UNCHANGED runvars

Next ==
    \/ \E a \in Actions : SetIntent(a)
    \/ Tick
    \/ Restart

Spec == Init /\ [][Next]_vars

\* ---- the same machine, one tick longer --------------------------------
TickLife ==
    /\ alive
    /\ TickCall(LifeTicks)
    /\ UNCHANGED runvars

NextLife ==
    \/ \E a \in Actions : SetIntent(a)
    \/ TickLife
    \/ Restart

SpecLife == Init /\ [][NextLife]_vars

\* ---- the session loop: run and main -----------------------------------
\* run: one pass of `for event in event_pump.poll_iter()`
RunPoll ==
    /\ pc = "poll"
    /\ \E evs \in EventBursts :
          \E r \in {poll(last_action, evs)} :
              /\ last_action' = r.last_action
              /\ polled' = evs
              /\ finished' = IF r.quit THEN "Exit" ELSE finished
              /\ pc' = IF r.quit THEN "returned" ELSE "tick"
    /\ ticks_in_iteration' = 0
    /\ UNCHANGED <<obstacles, player, timer, alive, exit, before, cleaned, spawned,
                   calls, blocked, drawn, clicked, draw_failure>>

\* run: if !world.tick()
RunTick ==
    /\ pc = "tick"
    /\ TickCall(RunTicks)
    /\ pc' = after_tick(alive')
    /\ ticks_in_iteration' = ticks_in_iteration + 1
    /\ UNCHANGED <<finished, polled, drawn, clicked, draw_failure>>

\* run: the game-over dialog and the return that follows it
RunDialog ==
    /\ pc = "dialog"
    /\ \E c \in Answers :
          /\ clicked' = c
          /\ finished' = dialog_result(c)
    /\ pc' = "returned"
    /\ UNCHANGED worldvars
    /\ UNCHANGED <<polled, drawn, draw_failure, ticks_in_iteration>>

\* run: the frame, then the next pass of the loop or return Finished::Error
RunDraw ==
    /\ pc = "draw"
    /\ \E failAt \in 0..(Len(obstacles) + 1) :
          \E f \in {draw_frame(obstacles, player, failAt)} :
              /\ drawn' = f.calls
              /\ draw_failure' = failAt
              /\ finished' = IF f.ok THEN finished ELSE "Error"
              /\ pc' = IF f.ok THEN "poll" ELSE "returned"
    /\ UNCHANGED worldvars
    /\ UNCHANGED <<polled, clicked, ticks_in_iteration>>

\* main: the next run, with its own World
RunAgain ==
    /\ pc = "returned"
    /\ main_continues(finished)
    /\ NewWorld
    /\ pc' = "poll"
    /\ finished' = "none"
    /\ polled' = <<>>
    /\ drawn' = <<>>
    /\ clicked' = "none"
    /\ draw_failure' = 0
    /\ ticks_in_iteration' = 0

NextRun ==
    \/ RunPoll
    \/ RunTick
    \/ RunDialog
    \/ RunDraw
    \/ RunAgain

SpecRun == Init /\ [][NextRun]_vars

\* ---- vocabulary of the properties --------------------------------------
Ticked == exit # "none"

PassedA == exit \in {"B", "ok"}

\* the player's anchor point lies in the closed rectangle of obstacle o
PlayerAnchorInObstacle(o) ==
    /\ o.pos.x <= player.pos.x /\ player.pos.x <= o.pos.x + o.cov.width
    /\ o.pos.y <= player.pos.y /\ player.pos.y <= o.pos.y + o.cov.height

\* the anchor point of obstacle o lies in the player's closed rectangle
ObstacleAnchorInPlayer(o) ==
    /\ player.pos.x <= o.pos.x /\ o.pos.x <= player.pos.x + player.cov.width
    /\ player.pos.y <= o.pos.y /\ o.pos.y <= player.pos.y + player.cov.height

\* the two rectangles share a region of positive area
RectanglesIntersect(o) ==
    /\ o.pos.x < player.pos.x + player.cov.width
    /\ player.pos.x < o.pos.x + o.cov.width
    /\ o.pos.y < player.pos.y + player.cov.height
    /\ player.pos.y < o.pos.y + o.cov.height

Range(q) == {q[i] : i \in 1..Len(q)}

\* a step of the model that is a call of tick
TickStep == calls' = calls + 1

\* ---- C1 ----------------------------------------------------------------
PlayerInBounds ==
    /\ 0 <= player.pos.x /\ player.pos.x <= WIDTH
    /\ 0 <= player.pos.y /\ player.pos.y <= HEIGHT

MoveIntoWall ==
    \/ last_action = "Left" /\ player.pos.x = 0
    \/ last_action = "Right" /\ player.pos.x = WIDTH
    \/ last_action = "Up" /\ player.pos.y = 0
    \/ last_action = "Down" /\ player.pos.y = HEIGHT

\* C1: in every reachable state the player's position satisfies
\* 0 <= x <= WIDTH and 0 <= y <= HEIGHT, and a tick that consumes a move into
\* a wall leaves the player's position unchanged.
C1_PlayerStaysOnBoard ==
    /\ []PlayerInBounds
    /\ [][(TickStep /\ MoveIntoWall) => player'.pos = player.pos]_vars

\* C1 witness: a tick has consumed a move into the right wall, at the bottom.
C1_Witness ==
    blocked /\ player.pos.x = WIDTH /\ player.pos.y = HEIGHT

\* ---- C2 ----------------------------------------------------------------
\* C2 as stated: no tick returns alive = true in a state where the player's
\* rectangle and some obstacle's rectangle intersect.
C2_NoAliveWithIntersectingRectangles ==
    exit = "ok" => \A o \in Range(obstacles) : ~RectanglesIntersect(o)

\* C2 amended: no tick returns alive = true in a state where the player's
\* anchor point lies in the closed rectangle of some obstacle.
C2_NoAliveWithAnchorInObstacle ==
    (exit = "ok" /\ alive) => \A o \in Range(obstacles) : ~PlayerAnchorInObstacle(o)

\* C2 witness: a tick returned alive although an obstacle's rectangle
\* intersects the player's, the player's anchor lying outside the obstacle.
C2_Witness ==
    /\ exit = "ok"
    /\ \E o \in Range(obstacles) : RectanglesIntersect(o) /\ ~PlayerAnchorInObstacle(o)

\* ---- C3 ----------------------------------------------------------------
\* C3 as stated: the check of tick reports a collision when an obstacle's
\* anchor point lies in the player's closed rectangle, so a tick that returned
\* alive = true leaves no obstacle anchored inside the player's rectangle.
C3_ObstacleAnchorInPlayerCollides ==
    exit = "ok" => \A o \in Range(obstacles) : ~ObstacleAnchorInPlayer(o)

\* the fixed placements the amended C3 names, all sizes gen_range(5, 32) can draw
C3_Placements ==
    /\ check_collisions(<<Entity(Position(10, 10), Coverage(5, 5))>>,
                        NewPlayer(Position(12, 12)))
    /\ ~check_collisions(<<Entity(Position(10, 10), Coverage(5, 5))>>,
                         NewPlayer(Position(16, 10)))
    /\ \A c \in {Coverage(w, h) : w \in 5..31, h \in 5..31} :
          /\ ~check_collisions(<<Entity(Position(12, 12), c)>>, NewPlayer(Position(10, 10)))
          /\ ~check_collisions(<<Entity(Position(16, 10), c)>>, NewPlayer(Position(10, 10)))

\* C3 amended: the check of tick reports a collision exactly when the
\* player's anchor point lies in the closed rectangle of some obstacle; with an
\* obstacle anchored at (10,10) of size (5,5), a player anchored at (12,12)
\* collides and a player anchored at (16,10) does not, and with the player at
\* (10,10) an obstacle anchored at (12,12) or (16,10) is no collision.
C3_PlayerAnchorInObstacleCollides ==
    /\ exit = "ok" => \A o \in Range(obstacles) : ~PlayerAnchorInObstacle(o)
    /\ exit \in {"A", "B"} => \E o \in Range(obstacles) : PlayerAnchorInObstacle(o)
    /\ C3_Placements

\* C3 witness: a tick reported a collision with an obstacle whose anchor is
\* outside the player's rectangle.
C3_Witness ==
    /\ exit \in {"A", "B"}
    /\ \A o \in Range(obstacles) : ~ObstacleAnchorInPlayer(o)

\* ---- C4 ----------------------------------------------------------------
\* C4: a tick that returns at collision check A returns alive = false and
\* leaves the obstacle queue as it found it; only the timer (plus one), the
\* consumed action and the player's position have changed.
C4_CheckALeavesQueue ==
    [][(TickStep /\ exit' = "A") =>
          /\ alive' = FALSE
          /\ obstacles' = obstacles
          /\ timer' = timer + 1
          /\ last_action' = "None"
          /\ player'.cov = player.cov
          /\ \E o \in Range(obstacles) :
                /\ o.pos.x <= player'.pos.x /\ player'.pos.x <= o.pos.x + o.cov.width
                /\ o.pos.y <= player'.pos.y /\ player'.pos.y <= o.pos.y + o.cov.height]_vars

\* C4 witness: check A fired on a tick whose timer is a multiple of SPAWN_DELAY.
C4_Witness ==
    exit = "A" /\ timer % SPAWN_DELAY = 0 /\ obstacles # <<>> /\ obstacles = before

\* ---- C5 ----------------------------------------------------------------
Expired(o) == o.pos.x + o.cov.width <= 0

\* the queue the last tick handed to cleanup: every obstacle one unit left
MovedQueue == [i \in 1..Len(before) |-> [before[i] EXCEPT !.pos.x = @ - 1]]

\* C5: cleanup removes exactly the maximal expired prefix of the queue: the
\* removed obstacles are all expired, the first one kept (if any) is not, and
\* the kept ones are the rest of the queue, unchanged and in order.
C5_CleanupMaximalPrefix ==
    PassedA =>
        \E j \in 0..Len(MovedQueue) :
            /\ \A i \in 1..j : Expired(MovedQueue[i])
            /\ j < Len(MovedQueue) => ~Expired(MovedQueue[j + 1])
            /\ cleaned = SubSeq(MovedQueue, j + 1, Len(MovedQueue))

\* C5 witness: a cleanup removed a front obstacle and stopped at one it kept.
C5_Witness ==
    PassedA /\ cleaned # <<>> /\ Len(cleaned) < Len(before)

\* ---- C6 ----------------------------------------------------------------
\* C6: right after the cleanup step of any tick, no obstacle remaining in the
\* queue has its right edge x + width <= 0.
C6_NoExpiredObstacleAfterCleanup ==
    PassedA => \A o \in Range(cleaned) : ~Expired(o)

\* ---- C7 ----------------------------------------------------------------
BatchSizes == MIN_SPAWN..(MAX_SPAWN - 1)

\* what the last tick appended to the back of the queue it kept
KeptQueue == IF exit = "A" THEN before ELSE cleaned

AppendedCount == Len(obstacles) - Len(KeptQueue)

AppendedAtBack == SubSeq(obstacles, 1, Len(KeptQueue)) = KeptQueue

\* C7 as stated: a tick whose incremented timer is a multiple of SPAWN_DELAY
\* appends exactly one batch of n obstacles, n in [MIN_SPAWN, MAX_SPAWN), to
\* the back of the queue, and every other tick appends none.
C7_SpawnOnEveryMultiple ==
    Ticked =>
        /\ AppendedAtBack
        /\ IF timer % SPAWN_DELAY = 0
           THEN AppendedCount \in BatchSizes
           ELSE AppendedCount = 0

\* C7 amended: a tick whose incremented timer is a multiple of SPAWN_DELAY and
\* that passes collision check A appends exactly one batch of n obstacles, n in
\* [MIN_SPAWN, MAX_SPAWN), to the back of the queue; every other tick, also one
\* on a multiple of SPAWN_DELAY that returns at check A, appends none.
C7_SpawnOnMultiplePassingA ==
    Ticked =>
        /\ AppendedAtBack
        /\ IF timer % SPAWN_DELAY = 0 /\ PassedA
           THEN AppendedCount \in BatchSizes
           ELSE AppendedCount = 0

\* C7 witness: a batch of the largest size was appended behind older obstacles.
C7_Witness ==
    /\ PassedA
    /\ timer % SPAWN_DELAY = 0
    /\ cleaned # <<>>
    /\ AppendedCount = MAX_SPAWN - 1
    /\ AppendedAtBack

\* ---- C8 ----------------------------------------------------------------
\* C8: during the first SPAWN_DELAY - 1 tick calls on a new World every call
\* returns alive = true and the obstacle queue stays empty.
C8_FreshWorldSurvives ==
    calls <= SPAWN_DELAY - 1 => (alive /\ exit \in {"none", "ok"} /\ obstacles = <<>>)

\* C8 witness: the tick number SPAWN_DELAY - 1 of a World has returned alive.
C8_Witness ==
    calls = SPAWN_DELAY - 1 /\ exit = "ok" /\ alive /\ obstacles = <<>>

\* ---- C9 ----------------------------------------------------------------
\* C9: tick returns alive = true only if no obstacle of the queue it leaves
\* collides with the player under is_collided(obstacle, player); a tick that
\* passed check A and then finds an obstacle, moved or spawned, on the player
\* returns alive = false.
C9_AliveOnlyWithoutCollision ==
    /\ alive = (exit \in {"none", "ok"})
    /\ exit = "ok" => \A o \in Range(obstacles) : ~is_collided(o, player)
    /\ exit = "B" =>
          /\ \A o \in Range(before) : ~is_collided(o, player)
          /\ \E o \in Range(obstacles) : is_collided(o, player)

\* C9 witness: a tick returned alive = false at check B because of an
\* obstacle it had just spawned.
C9_Witness ==
    /\ exit = "B"
    /\ \E o \in Range(spawned) : is_collided(o, player)
    /\ \A o \in Range(cleaned) : ~is_collided(o, player)

\* ---- C10 ---------------------------------------------------------------
\* C10: the timer is 0 in a new World and every tick call adds exactly 1 to
\* it, whatever the call returns: after k calls it equals k.
C10_TimerCountsCalls ==
    /\ []((calls = 0 => timer = 0) /\ timer = calls)
    /\ [][TickStep => timer' = timer + 1]_vars

\* C10 witness: a tick that returned at check A, later than the first spawn,
\* has been counted.
C10_Witness ==
    exit = "A" /\ calls > SPAWN_DELAY /\ timer = calls

\* ---- C11 ---------------------------------------------------------------
\* the events run looks at: those before the first quit
RECURSIVE BeforeQuit(_)
BeforeQuit(evs) ==
    IF evs = <<>> \/ Head(evs) = "Quit" THEN <<>>
    ELSE <<Head(evs)>> \o BeforeQuit(Tail(evs))

\* the most recent direction among the events, "None" if there is none
MostRecentDirection(evs) ==
    LET dirs == {i \in 1..Len(evs) : evs[i] \in Actions}
    IN  IF dirs = {} THEN "None"
        ELSE evs[CHOOSE i \in dirs : \A j \in dirs : j <= i]

Clamp(v, lo, hi) == IF v < lo THEN lo ELSE IF v > hi THEN hi ELSE v

\* the clamped one-unit step of intent a from position p
OneStep(p, a) ==
    CASE a = "Left" -> [x |-> Clamp(p.x - 1, 0, WIDTH), y |-> p.y]
      [] a = "Right" -> [x |-> Clamp(p.x + 1, 0, WIDTH), y |-> p.y]
      [] a = "Up" -> [x |-> p.x, y |-> Clamp(p.y - 1, 0, HEIGHT)]
      [] a = "Down" -> [x |-> p.x, y |-> Clamp(p.y + 1, 0, HEIGHT)]
      [] OTHER -> p

\* C11: of the directional events polled between two ticks only the most
\* recent is pending when tick is called; the tick moves the player by exactly
\* the clamped one-unit step of that intent (by nothing without intent) and
\* leaves no pending intent, whatever it returns.
C11_LastIntentOnly ==
    /\ [](pc = "poll" => last_action = "None")
    /\ [](pc = "tick" => last_action = MostRecentDirection(BeforeQuit(polled)))
    /\ [](pc \in {"draw", "dialog"} => last_action = "None")
    /\ [][TickStep => /\ player'.pos = OneStep(player.pos, last_action)
                      /\ player'.cov = player.cov
                      /\ last_action' = "None"]_vars

\* C11 witness: Right then Down were polled before the first tick of a World,
\* and the tick moved the player one unit down and not to the right.
C11_Witness ==
    /\ pc = "draw"
    /\ calls = 1
    /\ polled = <<"Right", "Down">>
    /\ last_action = "None"
    /\ \E p \in StartPositions : player.pos = [x |-> p.x, y |-> p.y + 1]

\* ---- C12 ---------------------------------------------------------------
\* how many obstacles the last tick's cleanup removed from the front
RemovedCount == Len(before) - Len(cleaned)

\* C12: on every tick that passes check A each obstacle of the queue has its x
\* reduced by exactly 1, below 0 too, and keeps its y, width and height: the
\* obstacles cleanup kept are those of the queue the tick found, one unit left,
\* and they are the front of the queue the tick leaves.
C12_ObstaclesMoveOneLeft ==
    PassedA =>
        /\ RemovedCount >= 0
        /\ Len(obstacles) >= Len(cleaned)
        /\ \A i \in 1..Len(cleaned) :
              /\ cleaned[i].pos.x = before[i + RemovedCount].pos.x - 1
              /\ cleaned[i].pos.y = before[i + RemovedCount].pos.y
              /\ cleaned[i].cov = before[i + RemovedCount].cov
              /\ obstacles[i] = cleaned[i]

\* C12 witness: a tick moved an obstacle from x = 0 to x = -1 and kept it.
C12_Witness ==
    /\ PassedA
    /\ \E i \in 1..Len(cleaned) :
          cleaned[i].pos.x = -1 /\ before[i + RemovedCount].pos.x = 0

\* ---- C13 ---------------------------------------------------------------
\* C13: in every reachable state the queue is in spawn order, oldest first:
\* obstacle x is non-decreasing from the front of the queue to the back, and no
\* obstacle has x > WIDTH.
C13_QueueInSpawnOrder ==
    /\ \A i \in 1..(Len(obstacles) - 1) :
          obstacles[i].pos.x <= obstacles[i + 1].pos.x
    /\ \A i \in 1..Len(obstacles) : obstacles[i].pos.x <= WIDTH

\* C13 witness: obstacles of two batches are in the queue, the older ones,
\* already past the left edge, in front of the ones just spawned.
C13_Witness ==
    /\ Len(obstacles) >= 2
    /\ obstacles[1].pos.x < 0
    /\ obstacles[Len(obstacles)].pos.x = WIDTH

\* ---- C14 ---------------------------------------------------------------
\* the sizes an obstacle can have: [MIN_SIZE, MAX_SIZE)
SizeInRange(c) ==
    /\ c.width >= MIN_SIZE /\ c.width < MAX_SIZE
    /\ c.height >= MIN_SIZE /\ c.height < MAX_SIZE

\* C14: every obstacle a tick spawns has x = WIDTH, y in [0, HEIGHT) and width
\* and height in [MIN_SIZE, MAX_SIZE); an obstacle's width, height (and y) are
\* the same after every tick it survives, so every queued obstacle still has
\* the sizes it was spawned with.
C14_SpawnedShapeAndSizesKept ==
    /\ \A i \in 1..Len(spawned) :
          /\ spawned[i].pos.x = WIDTH
          /\ spawned[i].pos.y >= 0 /\ spawned[i].pos.y < HEIGHT
          /\ SizeInRange(spawned[i].cov)
    /\ \A i \in 1..Len(obstacles) :
          /\ SizeInRange(obstacles[i].cov)
          /\ obstacles[i].pos.y >= 0 /\ obstacles[i].pos.y < HEIGHT
    /\ PassedA =>
          /\ Len(obstacles) = Len(cleaned) + Len(spawned)
          /\ \A i \in 1..Len(cleaned) :
                /\ obstacles[i].cov = before[i + RemovedCount].cov
                /\ obstacles[i].pos.y = before[i + RemovedCount].pos.y
    /\ exit = "A" => obstacles = before

\* C14 witness: an obstacle spawned with the largest width and the smallest
\* height has crossed the whole board and still has them.
C14_Witness ==
    /\ PassedA
    /\ \E i \in 1..Len(cleaned) :
          /\ obstacles[i].pos.x < 0
          /\ obstacles[i].cov = Coverage(MAX_SIZE - 1, MIN_SIZE)

\* ---- C15 ---------------------------------------------------------------
\* the World a run starts with
FreshWorld ==
    timer = 0 /\ obstacles = <<>> /\ last_action = "None" /\ alive

\* C15: once tick has returned false the World is never ticked again: the run
\* is in its dialog or has returned, and the only change of the World that can
\* follow is the construction of a fresh one (timer 0, empty queue, no pending
\* intent) after Finished::Restart. Within one pass of the loop tick is called
\* at most once, and only once the polling of that pass is over.
C15_DeadWorldNeverTicked ==
    /\ [](~alive => pc \in {"dialog", "returned"})
    /\ [](ticks_in_iteration <= 1)
    /\ [][TickStep => alive /\ pc = "tick" /\ ticks_in_iteration = 0]_vars
    /\ [][~alive =>
            \/ UNCHANGED worldvars
            \/ pc = "returned" /\ finished = "Restart" /\ FreshWorld']_vars

\* C15 witness: the player died on the one tick of this pass, the dialog
\* answered Restart and the run has returned.
C15_Witness ==
    /\ ~alive
    /\ pc = "returned"
    /\ finished = "Restart"
    /\ ticks_in_iteration = 1
    /\ timer > 0

\* ---- C16 ---------------------------------------------------------------
\* the outcome the dialog's answer stands for
OutcomeOfAnswer ==
    IF clicked.kind = "CloseButton" THEN "Exit"
    ELSE IF clicked.kind = "CustomButton" /\ clicked.id = exit_id THEN "Exit"
    ELSE IF clicked.kind = "CustomButton" /\ clicked.id = restart_id THEN "Restart"
    ELSE "Error"

\* C16: a run that has returned has exactly one outcome, Exit, Restart or
\* Error, and a run that has not returned has none. A quit or Escape event
\* returns Exit with no tick in that pass. After death the outcome is the one
\* the dialog's answer stands for: Restart for the Restart button, Exit for the
\* Exit button or the close button, Error for a failure or any other button id.
\* The outer loop takes a step from a returned run if and only if the outcome
\* is Restart; after Exit and Error nothing happens any more.
C16_RunOutcome ==
    /\ [](/\ finished \in {"none", "Exit", "Restart", "Error"}
          /\ (pc = "returned") <=> (finished # "none")
          /\ "Quit" \in Range(polled) =>
                pc = "returned" /\ finished = "Exit" /\ ticks_in_iteration = 0
          /\ (pc = "returned" /\ ~alive) => finished = OutcomeOfAnswer
          /\ pc = "returned" => ((ENABLED NextRun) <=> finished = "Restart"))
    /\ [][pc = "returned" =>
            finished = "Restart" /\ pc' = "poll" /\ finished' = "none"]_vars
    /\ [][(pc = "poll" /\ pc' = "returned") =>
            finished' = "Exit" /\ calls' = calls]_vars

\* C16 witness: the player is dead and the dialog answered with a button id
\* that is neither Restart nor Exit; the run returned Error.
C16_Witness ==
    /\ pc = "returned"
    /\ ~alive
    /\ clicked.kind = "CustomButton"
    /\ clicked.id \notin {restart_id, exit_id}
    /\ finished = "Error"

\* ---- C17 ---------------------------------------------------------------
\* the drawer calls of a frame in which nothing fails: one per obstacle in
\* queue order, then the player
FullFrame ==
    [i \in 1..Len(obstacles) |-> obj_to_rect(obstacles[i].pos, obstacles[i].cov)]
        \o <<obj_to_rect(player.pos, player.cov)>>

\* C17: a frame never touches the World. If the drawer fails at its k-th call,
\* the calls made are exactly the first k of the full frame (nothing after the
\* failing call, and no player rectangle after a failed obstacle), the run
\* returns Error, and nothing happens after that: no tick, no second try. If
\* the drawer never fails, the calls are the full frame, one per obstacle in
\* queue order and then the player, and the loop goes on to its next pass.
C17_DrawFailureAbortsFrame ==
    /\ [][pc = "draw" =>
            /\ UNCHANGED worldvars
            /\ draw_failure' = 0 =>
                  drawn' = FullFrame /\ pc' = "poll" /\ finished' = finished
            /\ draw_failure' > 0 =>
                  /\ drawn' = SubSeq(FullFrame, 1, draw_failure')
                  /\ pc' = "returned"
                  /\ finished' = "Error"]_vars
    /\ [](draw_failure > 0 => pc = "returned" /\ finished = "Error")
    /\ [][draw_failure > 0 => FALSE]_vars

\* C17 witness: with two or more obstacles in the queue the drawer failed on
\* the first one; it was called once and the run has returned Error.
C17_Witness ==
    /\ Len(obstacles) >= 2
    /\ draw_failure = 1
    /\ Len(drawn) = 1
    /\ pc = "returned"
    /\ finished = "Error"

\* ---- C18 ---------------------------------------------------------------
\* the rectangles the two draw views hand to a drawer that never fails
ExposedObstacles == draw_obstacles(obstacles, 0).calls

ExposedPlayer == draw_player(player)

\* C18: in every reachable state the rectangles exposed for drawing have
\* non-negative coordinates; there is one per queued obstacle, in queue order;
\* an obstacle with negative x is exposed with x = 0 and its own y, width and
\* height, and every other obstacle and the player with their exact position
\* and size. The views are functions of the World and leave it as it is.
C18_ExposedRectanglesClamped ==
    /\ \E e \in {ExposedObstacles} :
           /\ Len(e) = Len(obstacles)
           /\ \A i \in 1..Len(obstacles) :
                 LET o == obstacles[i]
                 IN  /\ e[i].x >= 0 /\ e[i].y >= 0
                     /\ e[i] = Rect(IF o.pos.x < 0 THEN 0 ELSE o.pos.x, o.pos.y,
                                    o.cov.width, o.cov.height)
    /\ ExposedPlayer.x >= 0 /\ ExposedPlayer.y >= 0
    /\ ExposedPlayer = Rect(player.pos.x, player.pos.y, PLAYER_WIDTH, PLAYER_HEIGHT)

\* C18 witness: the player is alive and an obstacle whose x is negative is in
\* the queue; the view exposes it at x = 0.
C18_Witness ==
    /\ exit = "ok"
    /\ \E i \in 1..Len(obstacles) :
          obstacles[i].pos.x < 0 /\ ExposedObstacles[i].x = 0

\* ---- C19 ---------------------------------------------------------------
\* the number of ticks an obstacle can end in the queue: from x = WIDTH down
\* to the last x at which the widest obstacle still has its right edge > 0
Lifetime == WIDTH + MAX_SIZE - 1

CeilDiv(a, b) == (a + b - 1) \div b

QueueCeiling == (MAX_SPAWN - 1) * CeilDiv(Lifetime, SPAWN_DELAY)

\* the last tick on which the obstacles moved
LastMove == IF exit = "A" THEN timer - 1 ELSE timer

\* the spawn ticks whose obstacles can still be in the queue after tick t
LiveSpawnTicks(t) == {u \in 1..t : SpawnDue(u) /\ t - u < Lifetime}

\* at no tick do more than ceil(Lifetime / SPAWN_DELAY) batches overlap, and
\* with the program's numbers the ceiling is 9 * ceil((480 + 31) / 150) = 36,
\* below the capacity hint
C19_Arithmetic ==
    /\ \A t \in 0..LifeTicks :
          Cardinality(LiveSpawnTicks(t)) <= CeilDiv(Lifetime, SPAWN_DELAY)
    /\ 9 * CeilDiv(480 + 31, 150) = 36
    /\ 36 <= MAX_OBST

\* C19: the queue never holds more obstacles than the largest batch times the
\* number of spawn ticks that lie less than Lifetime ticks back, so never more
\* than (MAX_SPAWN - 1) * ceil(Lifetime / SPAWN_DELAY), which is below MAX_OBST.
C19_QueueLengthBounded ==
    /\ C19_Arithmetic
    /\ Len(obstacles) <= (MAX_SPAWN - 1) * Cardinality(LiveSpawnTicks(LastMove))
    /\ Len(obstacles) <= QueueCeiling
    /\ Len(obstacles) <= MAX_OBST

\* C19 witness: the queue is as long as the ceiling allows, two full batches,
\* and one tick later the older batch has been reclaimed.
C19_Witness ==
    /\ exit = "ok"
    /\ Len(before) = QueueCeiling
    /\ Cardinality(LiveSpawnTicks(timer)) < Cardinality(LiveSpawnTicks(timer - 1))
    /\ Len(obstacles) = MAX_SPAWN - 1

\* ---- C20 ---------------------------------------------------------------
\* the number of ticks that have moved obstacle o since the tick that spawned it
Age(o) == WIDTH - o.pos.x

\* C20: every queued obstacle was spawned fewer than Lifetime = WIDTH +
\* MAX_SIZE - 1 ticks back, so an obstacle spawned on tick t is out of the
\* queue after tick t + Lifetime of a World that stayed alive, whatever lies in
\* front of it; and the obstacles a tick removes all have their right edge
\* x + width <= 0 when cleanup looks at them.
C20_ObstaclesReclaimedInTime ==
    /\ \A i \in 1..Len(obstacles) : Age(obstacles[i]) < Lifetime
    /\ PassedA =>
          /\ RemovedCount >= 0
          /\ \A i \in 1..RemovedCount : Expired(MovedQueue[i])

\* C20 witness: an obstacle that had stayed in the queue with its right edge
\* at 0, behind a wider obstacle of its batch, is reclaimed together with that
\* obstacle on the tick that ends its lifetime.
C20_Witness ==
    /\ exit = "ok"
    /\ RemovedCount >= 2
    /\ Expired(before[2])
    /\ ~Expired(before[1])
    /\ Age(MovedQueue[2]) = Lifetime

====
